---------------------------- MODULE Spec2Model ----------------------------
(***************************************************************************)
(* Markdown-to-PDF renderer of AI-pdf-maker: streamTextAsPDF in its two    *)
(* versions, server/src/pdf.ts "ENHANCED" (src/unnamed/part_000) and       *)
(* "FIXED" (src/unnamed/part_003).                                         *)
(*                                                                         *)
(* Lengths are in hundredths of a PDF point, so that the A4 page of        *)
(* 595.28 x 841.89 points is exact.  A text is modelled by its number of   *)
(* characters; pdfkit's measuring and wrapping of a text is modelled by    *)
(* HeightOfString below, and depends on the font and font size that are    *)
(* current in the document when it is called, as in pdfkit.  The document  *)
(* is a recorder of the drawing calls made on each page: pages are         *)
(* allocated by the constructor and by doc.addPage only.                   *)
(***************************************************************************)
EXTENDS Integers, Sequences, FiniteSets, TLC

VARIABLES
    version,          \* "enhanced" (part_000) or "fixed" (part_003)
    opts,             \* the options of the call, after defaults
    tokens,           \* marked.lexer(markdownContent)
    pc,               \* position in streamTextAsPDF
    idx,              \* index of the next body token
    itemIdx,          \* index of the next item of the list being rendered
    tocIdx,           \* index of the next table-of-contents entry
    tableOfContents,  \* the collected entries
    yPosition,        \* let yPosition
    pageNumber,       \* let pageNumber
    doc,              \* the PDFDocument: its pages' drawing logs and font state
    calls,            \* checkPageBreak / moveDown calls made by the last step
    breaks,           \* every transition to a new page made so far
    clock,            \* the day that new Date() gives
    server,           \* the requests of POST /api/generate-pdf and the event loop
    filename,         \* a title and what sanitizeFilename makes of it
    inline            \* the inline runs of a block and the text drawn for them

renderVars == <<version, opts, tokens, pc, idx, itemIdx, tocIdx, tableOfContents,
                yPosition, pageNumber, doc, calls, breaks, clock>>

vars == <<renderVars, server, filename, inline>>

---------------------------------------------------------------------------
(* Bounds of the model and sets the inputs are drawn from *)

MaxTokens == 2
MaxItems == 2
MaxClock == 1

Pt(n) == n * 100

PageHeight == 84189
PageWidth == 59528

Versions == {"enhanced", "fixed"}

DefaultMargins == [top |-> Pt(72), bottom |-> Pt(72), left |-> Pt(72), right |-> Pt(72)]
MarginChoices == {DefaultMargins, [DefaultMargins EXCEPT !.bottom = Pt(200)]}

DefaultFontSize == 12

\* Texts are given by their number of characters: 20 fit on a line in every
\* font used, 100 wrap in a heading, 2000 fill most of a page as body text.
ShortText == 20
WrappingText == 100
PageText == 2000

HeadingTokens ==
    {[type |-> "heading", depth |-> 1, text |-> ShortText],
     [type |-> "heading", depth |-> 2, text |-> WrappingText],
     [type |-> "heading", depth |-> 3, text |-> ShortText]}
ListTokens ==
    {[type |-> "list", items |-> [i \in 1..n |-> txt]] :
        n \in 1..MaxItems, txt \in {ShortText, PageText}}
TokenChoices ==
    HeadingTokens \cup ListTokens \cup
    [type : {"paragraph", "code"}, text : {ShortText, PageText}] \cup
    [type : {"blockquote"}, text : {PageText}] \cup
    [type : {"hr", "space"}] \cup
    {[type |-> "other", hasText |-> TRUE, hasRaw |-> TRUE, text |-> PageText],
     [type |-> "other", hasText |-> FALSE, hasRaw |-> TRUE, text |-> PageText],
     [type |-> "other", hasText |-> FALSE, hasRaw |-> FALSE, text |-> 0]}

\* a token field that is absent reads as undefined
Undefined == -1

\* tokens of a recognized kind that lack a field the renderer reads
MalformedTokens ==
    {[type |-> "list"],
     [type |-> "list", items |-> <<Undefined>>],
     [type |-> "heading", depth |-> 1, text |-> Undefined],
     [type |-> "blockquote", text |-> Undefined]}

\* the inputs of the runs in which a statement may throw
RobustTokenChoices ==
    MalformedTokens \cup
    {[type |-> "heading", depth |-> 1, text |-> ShortText],
     [type |-> "paragraph", text |-> PageText],
     [type |-> "blockquote", text |-> PageText],
     [type |-> "code", text |-> ShortText],
     [type |-> "list", items |-> <<ShortText>>],
     [type |-> "hr"], [type |-> "space"],
     [type |-> "other", hasText |-> TRUE, hasRaw |-> TRUE, text |-> ShortText],
     [type |-> "other", hasText |-> FALSE, hasRaw |-> FALSE, text |-> 0]}

ThemeChoices == {"professional", "coding", "nonexistent-theme"}

OptionChoices ==
    [theme : {"professional"},
     fontSize : {DefaultFontSize},
     margins : MarginChoices,
     includeHeader : BOOLEAN,
     includeFooter : BOOLEAN,
     includePageNumbers : BOOLEAN,
     includeTableOfContents : BOOLEAN]

RobustOptionChoices ==
    [theme : ThemeChoices,
     fontSize : {DefaultFontSize},
     margins : {DefaultMargins},
     includeHeader : BOOLEAN,
     includeFooter : BOOLEAN,
     includePageNumbers : BOOLEAN,
     includeTableOfContents : BOOLEAN]

---------------------------------------------------------------------------
(* pdfkit: text measurement *)

Max(a, b) == IF a >= b THEN a ELSE b

CeilDiv(a, b) == (a + b - 1) \div b

\* line height of a standard font at a size, from its AFM metrics
LineHeightOf(font, size) ==
    CASE font = "Helvetica"      -> (size * 1156) \div 10
      [] font = "Helvetica-Bold" -> (size * 1190) \div 10
      [] font = "Courier"        -> (size * 1055) \div 10

\* width of n characters of average width
WidthOfString(n, font, size) ==
    CASE font = "Helvetica"      -> (n * size * 500) \div 10
      [] font = "Helvetica-Bold" -> (n * size * 556) \div 10
      [] font = "Courier"        -> (n * size * 600) \div 10

\* pdfkit draws and measures an undefined text as the empty string
Chars(n) == IF n = Undefined THEN 0 ELSE n

\* doc.heightOfString(text, {width, lineGap}) with the document's current font
HeightOfString(d, n, width, lineGap) ==
    LET lines == Max(1, CeilDiv(WidthOfString(Chars(n), d.font, d.size), width))
    IN  lines * (LineHeightOf(d.font, d.size) + lineGap)

---------------------------------------------------------------------------
(* pdfkit: the document as a recorder of drawing calls *)

EmptyPage == [draws |-> 0, body |-> 0, header |-> 0, footer |-> 0,
              pageTexts |-> <<>>, blocks |-> <<>>, bullets |-> <<>>, rules |-> <<>>,
              headers |-> <<>>, footers |-> <<>>]

\* opacity is the fill opacity, in thousandths
NewDocument == [pages |-> <<EmptyPage>>, cur |-> 1,
                font |-> "Helvetica", size |-> 12, fill |-> "black", opacity |-> 1000,
                draws |-> 0, toc |-> <<>>, tocPages |-> {}, ended |-> FALSE]

\* doc.addPage(): the new page becomes the current one
AddPage(d) == [d EXCEPT !.pages = Append(@, EmptyPage), !.cur = Len(d.pages) + 1]

\* doc.font(f).fontSize(sz) and the colour of the last doc.fill(c)
SetStyle(d, f, sz, c) == [d EXCEPT !.font = f, !.size = sz, !.fill = c]

\* n drawing calls (rect, circle, text) on the current page
Draw(d, n) == [d EXCEPT !.draws = @ + n, !.pages[d.cur].draws = @ + n]

\* n drawing calls made for a body token
DrawBody(d, n) == [Draw(d, n) EXCEPT !.pages[d.cur].body = @ + n]


---------------------------------------------------------------------------
(* streamTextAsPDF: layout state and helper functions.  An operator takes  *)
(* and returns the record s of what the closure can change:                *)
(*   s.y = yPosition, s.pn = pageNumber, s.doc = doc, s.calls and s.breaks *)
(*   the logs, s.ev the steps of the page transition in progress.          *)

ContentWidth == PageWidth - opts.margins.left - opts.margins.right

\* part_003: const footerSpace = includeFooter ? 60 : margins.bottom
FooterSpace == IF opts.includeFooter THEN Pt(60) ELSE opts.margins.bottom

\* yPosition at construction
InitialY ==
    IF version = "fixed"
    THEN opts.margins.top + (IF opts.includeHeader THEN Pt(80) ELSE Pt(20))
    ELSE opts.margins.top + Pt(60)

\* yPosition a page transition resets to
FreshPageY ==
    IF version = "fixed"
    THEN opts.margins.top + (IF opts.includeHeader THEN Pt(90) ELSE Pt(30))
    ELSE opts.margins.top + Pt(80)

Ev(op, s) == [op |-> op, page |-> s.doc.cur, pn |-> s.pn, y |-> s.y]

Note(s, op) == [s EXCEPT !.ev = Append(@, Ev(op, s))]

OnPage(d, field, val) == [d EXCEPT !.pages[d.cur][field] = val]

\* AddHeader without its test of includeHeader
AddHeaderAlways(s) ==
    LET d == s.doc
        drawn == Draw(OnPage(d, "header", d.pages[d.cur].header + 1), 3)
    IN  Note([s EXCEPT !.doc = SetStyle(drawn, "Helvetica-Bold", 18, "accent")],
             "addHeader")

\* the length of the title
Title == ShortText

\* part_003: the themes with gradientStart
Gradient == version = "fixed" /\ opts.theme \in {"modern", "coding"}

\* what a call of addHeader draws with: the band is filled with the fill
\* opacity the document has (the strips of a gradient set their own), the
\* title is measured and drawn in the font and colour the document has then
HeaderDrawn(d) ==
    LET banded == [d EXCEPT !.fill = "primary",
                            !.opacity = IF Gradient THEN 2 ELSE @]
        styled == SetStyle(IF version = "fixed" THEN [banded EXCEPT !.opacity = 1000]
                           ELSE banded,
                           "Helvetica-Bold", IF version = "fixed" THEN 18 ELSE 16,
                           "background")
    IN  [theme |-> opts.theme,
         band |-> IF Gradient THEN "strips" ELSE "solid",
         bandOpacity |-> IF Gradient THEN 100 ELSE banded.opacity,
         bandFill |-> banded.fill,
         font |-> styled.font, size |-> styled.size, fill |-> styled.fill,
         title |-> Title,
         titleX |-> IF version = "fixed"
                    THEN (PageWidth - WidthOfString(Title, styled.font, styled.size)) \div 2
                    ELSE opts.margins.left,
         titleOpacity |-> styled.opacity,
         lineX |-> opts.margins.left, lineWidth |-> ContentWidth,
         lineOpacity |-> styled.opacity]

AddHeader(s) ==
    IF ~opts.includeHeader THEN s
    ELSE LET d == s.doc
             logged == OnPage(d, "headers", Append(d.pages[d.cur].headers, HeaderDrawn(d)))
             \* band (or gradient strips), title, decorative line
             drawn == Draw(OnPage(logged, "header", d.pages[d.cur].header + 1), 3)
             styled == SetStyle(drawn, "Helvetica-Bold",
                                IF version = "fixed" THEN 18 ELSE 16, "accent")
         IN  Note([s EXCEPT !.doc = IF version = "fixed"
                                    THEN [styled EXCEPT !.opacity = 1000]
                                    ELSE styled], "addHeader")

\* what a call of addFooter draws with: the rule is filled with the fill
\* opacity the document has, the texts are measured and drawn in the font the
\* document has after doc.font(bodyFont).fontSize(9)
FooterDrawn(d) ==
    LET styled == SetStyle(d, "Helvetica", IF version = "fixed" THEN 9 ELSE 10,
                           "secondary")
        footerY == PageHeight - (IF version = "fixed" THEN Pt(50) ELSE Pt(40))
    IN  [theme |-> opts.theme,
         ruleY |-> footerY - (IF version = "fixed" THEN Pt(5) ELSE Pt(10)),
         ruleX |-> opts.margins.left, ruleWidth |-> ContentWidth,
         ruleFill |-> "secondary", ruleOpacity |-> d.opacity,
         font |-> styled.font, size |-> styled.size, fill |-> styled.fill,
         textOpacity |-> styled.opacity,
         y |-> footerY, dateX |-> opts.margins.left,
         date |-> clock,
         numbered |-> opts.includePageNumbers,
         pageTextRight |-> PageWidth - opts.margins.right]

AddFooter(s) ==
    IF ~opts.includeFooter THEN s
    ELSE LET d == s.doc
             pg == d.pages[d.cur]
             logged == OnPage(d, "footers", Append(pg.footers, FooterDrawn(d)))
             \* rule and date
             ruled == Draw(OnPage(logged, "footer", pg.footer + 1), 2)
             styled == SetStyle(ruled, "Helvetica",
                                IF version = "fixed" THEN 9 ELSE 10, "secondary")
             numbered ==
                 IF opts.includePageNumbers
                 THEN Draw(OnPage(styled, "pageTexts", Append(pg.pageTexts, s.pn)), 1)
                 ELSE styled
         IN  Note([s EXCEPT !.doc = numbered], "addFooter")

DocAddPage(s) == Note([s EXCEPT !.doc = AddPage(@)], "addPage")

IncPageNumber(s) == Note([s EXCEPT !.pn = @ + 1], "pageNumber")

ResetY(s) == Note([s EXCEPT !.y = FreshPageY], "reset")

\* the steps noted since the transition began become one entry of breaks
EndTransition(s, kind) ==
    [s EXCEPT !.breaks = Append(@, [kind |-> kind, events |-> s.ev]), !.ev = <<>>]

Snapshot(s) == [y |-> s.y, pn |-> s.pn, pages |-> Len(s.doc.pages), draws |-> s.doc.draws]

Called(s0, s1, fn, arg) ==
    [s1 EXCEPT !.calls = Append(@, [fn |-> fn, arg |-> arg,
                                    before |-> Snapshot(s0), after |-> Snapshot(s1)])]

\* part_003: availableSpace < requiredSpace; part_000: yPosition + requiredSpace > ...
MustBreak(s, requiredSpace) ==
    IF version = "fixed"
    THEN PageHeight - FooterSpace - s.y < requiredSpace
    ELSE s.y + requiredSpace > PageHeight - opts.margins.bottom - Pt(50)

PageBreak(s) ==
    IF version = "fixed"
    THEN ResetY(AddHeader(IncPageNumber(DocAddPage(AddFooter([s EXCEPT !.ev = <<>>])))))
    ELSE ResetY(AddHeader(IncPageNumber(DocAddPage([s EXCEPT !.ev = <<>>]))))

\* CheckPageBreak that also reserves the space it checked for
CheckPageBreakAdvancing(s, requiredSpace) ==
    IF MustBreak(s, requiredSpace)
    THEN Called(s, EndTransition(PageBreak(s), "auto"), "checkPageBreak", requiredSpace)
    ELSE Called(s, [s EXCEPT !.y = @ + requiredSpace], "checkPageBreak", requiredSpace)

CheckPageBreak(s, requiredSpace) ==
    IF MustBreak(s, requiredSpace)
    THEN Called(s, EndTransition(PageBreak(s), "auto"), "checkPageBreak", requiredSpace)
    ELSE Called(s, s, "checkPageBreak", requiredSpace)

\* checkPageBreak() with its default argument
DefaultRequiredSpace == IF version = "fixed" THEN Pt(50) ELSE Pt(100)

MoveDown(s, space) ==
    LET moved == [s EXCEPT !.y = @ + space]
    IN  Called(s, CheckPageBreak(moved, DefaultRequiredSpace), "moveDown", space)

\* ForcedBreak without its pageNumber++
ForcedBreakKeepsPageNumber(s) ==
    EndTransition(ResetY(AddHeader(DocAddPage([s EXCEPT !.ev = <<>>]))), "forced")

\* ForcedBreak without its doc.addPage()
ForcedBreakOnSamePage(s) ==
    EndTransition(ResetY(AddHeader(IncPageNumber([s EXCEPT !.ev = <<>>]))), "forced")

\* the forced break after the table of contents
ForcedBreak(s) ==
    EndTransition(ResetY(AddHeader(IncPageNumber(DocAddPage([s EXCEPT !.ev = <<>>])))),
                  "forced")

---------------------------------------------------------------------------
(* streamTextAsPDF: the blocks *)

\* doc.text(text, x, y, {width, lineGap}) of a block: what is drawn is as high
\* as the text is in the font that is current when it is drawn
Advance(s, space) == [s EXCEPT !.y = @ + space]

\* a doc.heightOfString(text, {width, lineGap}) call: what it measured with
\* and what it returned
Measure(d, n, width, lineGap) ==
    [font |-> d.font, size |-> d.size, width |-> width, lineGap |-> lineGap,
     h |-> HeightOfString(d, n, width, lineGap)]

\* a branch that draws without measuring
NoMeasure == [font |-> "none", size |-> 0, width |-> 0, lineGap |-> 0, h |-> 0]

DrawBlock(d, kind, y, n, width, lineGap) ==
    DrawBody(OnPage(d, "blocks",
                    Append(d.pages[d.cur].blocks,
                           [kind |-> kind, y |-> y,
                            h |-> HeightOfString(d, n, width, lineGap),
                            font |-> d.font, size |-> d.size, fill |-> d.fill,
                            width |-> width, lineGap |-> lineGap,
                            m |-> NoMeasure, box |-> 0, advance |-> 0])), 1)

\* the measurement a branch took for the block it has just drawn, the height
\* of the box it drew around it (0 for none) and what it adds to yPosition
Measured(s, measure, box, advance) ==
    LET last == Len(s.doc.pages[s.doc.cur].blocks)
    IN  Advance([s EXCEPT !.doc.pages[s.doc.cur].blocks[last] =
                              [@ EXCEPT !.m = measure, !.box = box,
                                        !.advance = advance]],
                advance)

\* doc.circle(x, y, r) of the bullet of a list item: the item is logged with it
DrawBullet(d, y, item) ==
    DrawBody(OnPage(d, "bullets",
                    Append(d.pages[d.cur].bullets, [y |-> y, item |-> item])), 1)

BodyFont(s, size, colour) == [s EXCEPT !.doc = SetStyle(@, "Helvetica", size, colour)]

HeaderFont(s, size, colour) ==
    [s EXCEPT !.doc = SetStyle(@, "Helvetica-Bold", size, colour)]

Text(s, kind, y, n, width, lineGap) ==
    [s EXCEPT !.doc = DrawBlock(@, kind, y, n, width, lineGap)]

Shapes(s, n, colour) == [s EXCEPT !.doc = [DrawBody(@, n) EXCEPT !.fill = colour]]

\* FaintShape without its closing .fillOpacity(1)
FaintShapeKept(s, opacity, colour) ==
    [Shapes(s, 1, colour) EXCEPT !.doc.opacity = opacity]

\* doc.rect(...).fillOpacity(opacity).fill(colour).fillOpacity(1)
FaintShape(s, opacity, colour) ==
    [Shapes(s, 1, colour) EXCEPT !.doc.opacity = 1000]

\* the rule drawn at y for the heading whose text `heading` has just drawn:
\* the page and place of that text are logged with the rule
Rule(s, heading, y) ==
    LET d == heading.doc
        text == d.pages[d.cur].blocks[Len(d.pages[d.cur].blocks)]
        drawn == Shapes(s, 1, "accent")
    IN  [drawn EXCEPT !.doc = OnPage(@, "rules",
                                     Append(drawn.doc.pages[drawn.doc.cur].rules,
                                            [y |-> y, headingPage |-> d.cur,
                                             headingY |-> text.y,
                                             headingH |-> text.h]))]

\* part_003, case 'heading'
HeadingFixed(s, token) ==
    LET a == CheckPageBreak(s, IF token.depth = 1 THEN Pt(80) ELSE Pt(60))
        b == MoveDown(a, IF token.depth = 1 THEN Pt(40) ELSE Pt(25))
    IN  IF token.depth = 1
        THEN LET c == HeaderFont(FaintShape(b, 100, "primary"), 22, "primary")
                 e == Text(c, "heading", c.y, token.text, ContentWidth, 0)
                 f == MoveDown(e, Pt(50))
             IN  Rule(f, e, f.y - Pt(20))
        ELSE LET headingSize == IF token.depth = 2 THEN 18 ELSE 15
                 c == HeaderFont(b, headingSize,
                                 IF token.depth = 2 THEN "primary" ELSE "accent")
                 e == Text(c, "heading", c.y, token.text, ContentWidth, 0)
                 f == MoveDown(e, Pt(headingSize + 10))
             IN  IF token.depth = 2 THEN Rule(f, e, f.y - Pt(15)) ELSE f

\* part_000, case 'heading'
HeadingEnhanced(s, token) ==
    LET a == CheckPageBreak(s, Pt(60))
        b == MoveDown(a, IF token.depth = 1 THEN Pt(30) ELSE Pt(20))
    IN  IF token.depth = 1
        THEN LET c == HeaderFont(Shapes(b, 1, "primary"), 20, "background")
                 e == Text(c, "heading", c.y, token.text, ContentWidth, 0)
             IN  MoveDown(e, Pt(45))
        ELSE LET headingSize == IF token.depth = 2 THEN 16 ELSE 14
                 c == HeaderFont(b, headingSize,
                                 IF token.depth = 2 THEN "primary" ELSE "accent")
                 e == Text(c, "heading", c.y, token.text, ContentWidth, 0)
                 f == IF token.depth = 2 THEN Shapes(e, 1, "accent") ELSE e
             IN  MoveDown(f, Pt(headingSize + 15))

\* part_003, case 'paragraph'
ParagraphFixed(s, token) ==
    LET a == BodyFont(CheckPageBreak(s, Pt(60)), opts.fontSize, "text")
        measure == Measure(a.doc, token.text, ContentWidth, Pt(4))
        textHeight == measure.h
        b == CheckPageBreak(a, textHeight + Pt(20))
        c == Text(b, "paragraph", b.y, token.text, ContentWidth, Pt(4))
    IN  Measured(c, measure, 0, textHeight + Pt(25))

\* part_000, case 'paragraph'
ParagraphEnhanced(s, token) ==
    LET a == BodyFont(CheckPageBreak(s, Pt(50)), opts.fontSize, "text")
        c == Text(a, "paragraph", a.y, token.text, ContentWidth, Pt(4))
    IN  MoveDown(c, Pt(25))

\* case 'list', before the items
ListBegin(s) ==
    IF version = "fixed"
    THEN MoveDown(CheckPageBreak(s, Pt(100)), Pt(20))
    ELSE MoveDown(CheckPageBreak(s, Pt(80)), Pt(15))

\* part_003, one iteration of the loop over token.items
ListItemFixed(s, item) ==
    LET a == CheckPageBreak(s, Pt(35))
        b == [a EXCEPT !.doc = [DrawBullet(@, a.y + Pt(8), item) EXCEPT !.fill = "accent"]]
        c == BodyFont(b, opts.fontSize, "text")
        measure == Measure(c.doc, item, ContentWidth - Pt(35), Pt(2))
        itemHeight == measure.h
        e == Text(c, "listItem", c.y, item, ContentWidth - Pt(35), Pt(2))
    IN  Measured(e, measure, 0, itemHeight + Pt(15))

\* part_000, one call of the callback of token.items.forEach
ListItemEnhanced(s, item) ==
    LET a == CheckPageBreak(s, Pt(30))
        b == [a EXCEPT !.doc = [DrawBullet(@, a.y + Pt(6), item)
                                   EXCEPT !.fill = "accent"]]
        c == BodyFont(b, opts.fontSize, "text")
        e == Text(c, "listItem", c.y, item, ContentWidth - Pt(30), Pt(2))
    IN  MoveDown(e, Pt(20))

\* case 'list', after the items
ListEnd(s) == MoveDown(s, IF version = "fixed" THEN Pt(15) ELSE Pt(10))

\* part_003, case 'blockquote': the height is measured before the font is set
BlockquoteFixed(s, token) ==
    LET a == MoveDown(CheckPageBreak(s, Pt(80)), Pt(20))
        measure == Measure(a.doc, token.text, ContentWidth - Pt(40), Pt(4))
        quoteHeight == measure.h + Pt(20)
        b == BodyFont(Shapes(FaintShape(a, 50, "primary"), 1, "accent"),
                      opts.fontSize - 1, "secondary")
        c == Text(b, "blockquote", b.y, token.text, ContentWidth - Pt(40), Pt(4))
    IN  Measured(c, measure, quoteHeight, quoteHeight + Pt(10))

\* part_000, case 'blockquote'
BlockquoteEnhanced(s, token) ==
    LET a == MoveDown(CheckPageBreak(s, Pt(60)), Pt(15))
        b == BodyFont(Shapes(a, 1, "accent"), opts.fontSize - 1, "secondary")
        c == Text(b, "blockquote", b.y, token.text, ContentWidth - Pt(30), Pt(3))
    IN  MoveDown(c, Pt(50))

\* part_003, case 'code': measured before the font is set, and 10 wider than
\* drawn; setPosition(x, yPosition + 10) moves yPosition before the text is placed
CodeFixed(s, token) ==
    LET a == MoveDown(CheckPageBreak(s, Pt(60)), Pt(20))
        measure == Measure(a.doc, token.text, ContentWidth - Pt(20), Pt(2))
        codeHeight == Max(Pt(40), measure.h + Pt(20))
        b == [Shapes(a, 1, "#f8fafc") EXCEPT !.doc = SetStyle(@, "Courier",
                                                     opts.fontSize - 1, "#1e293b")]
        c == Advance(b, Pt(10))
        e == Text(c, "code", c.y + Pt(10), token.text, ContentWidth - Pt(30), Pt(2))
    IN  Measured(e, measure, codeHeight, codeHeight + Pt(20))

\* part_000, case 'code'
CodeEnhanced(s, token) ==
    LET a == MoveDown(CheckPageBreak(s, Pt(40)), Pt(15))
        b == [Shapes(a, 1, "#f1f5f9") EXCEPT !.doc = SetStyle(@, "Courier", 10, "#1e293b")]
        c == Text(b, "code", b.y + Pt(10), token.text, ContentWidth - Pt(20), 0)
    IN  MoveDown(Measured(c, NoMeasure, Pt(30), 0), Pt(30 + 15))

\* case 'hr'
Hr(s) ==
    IF version = "fixed"
    THEN MoveDown(Shapes(MoveDown(CheckPageBreak(s, Pt(40)), Pt(25)), 3, "primary"), Pt(30))
    ELSE MoveDown(Shapes(MoveDown(CheckPageBreak(s, Pt(30)), Pt(20)), 1, "accent"), Pt(25))

\* case 'space'
Space(s) == MoveDown(s, IF version = "fixed" THEN Pt(12) ELSE Pt(10))

\* part_003, default: 'text' in token || 'raw' in token; measured before the
\* font is set
OtherFixed(s, token) ==
    IF token.hasText \/ token.hasRaw
    THEN LET a == CheckPageBreak(s, Pt(40))
             measure == Measure(a.doc, token.text, ContentWidth, Pt(3))
             textHeight == measure.h
             b == BodyFont(a, opts.fontSize, "text")
             c == Text(b, "other", b.y, token.text, ContentWidth, Pt(3))
         IN  Measured(c, measure, 0, textHeight + Pt(20))
    ELSE s

\* part_000, default: 'text' in token
OtherEnhanced(s, token) ==
    IF token.hasText
    THEN LET b == BodyFont(s, opts.fontSize, "text")
             c == Text(b, "other", b.y, token.text, ContentWidth, 0)
         IN  MoveDown(c, Pt(20))
    ELSE s

\* the switch of the body loop, for the tokens that are rendered in one step
RenderToken(s, token) ==
    CASE token.type = "heading" ->
             IF version = "fixed" THEN HeadingFixed(s, token) ELSE HeadingEnhanced(s, token)
      [] token.type = "paragraph" ->
             IF version = "fixed" THEN ParagraphFixed(s, token)
             ELSE ParagraphEnhanced(s, token)
      [] token.type = "blockquote" ->
             IF version = "fixed" THEN BlockquoteFixed(s, token)
             ELSE BlockquoteEnhanced(s, token)
      [] token.type = "code" ->
             IF version = "fixed" THEN CodeFixed(s, token) ELSE CodeEnhanced(s, token)
      [] token.type = "hr" -> Hr(s)
      [] token.type = "space" -> Space(s)
      [] token.type = "other" ->
             IF version = "fixed" THEN OtherFixed(s, token) ELSE OtherEnhanced(s, token)

\* ListItem that leaves yPosition where it was
ListItemUnmoved(s, item) ==
    [(IF version = "fixed" THEN ListItemFixed(s, item) ELSE ListItemEnhanced(s, item))
        EXCEPT !.y = s.y]

ListItem(s, item) ==
    IF version = "fixed" THEN ListItemFixed(s, item) ELSE ListItemEnhanced(s, item)

---------------------------------------------------------------------------
(* streamTextAsPDF: the table of contents *)

\* CollectHeadings recording the page the body starts on after the forced break
CollectHeadingsAfterBreak(toks, page) ==
    LET h == SelectSeq(toks, LAMBDA tok : tok.type = "heading")
    IN  [i \in 1..Len(h) |-> [level |-> h[i].depth, text |-> h[i].text,
                              page |-> page + 1]]

\* tokens.forEach(token => { if (token.type === 'heading') tableOfContents.push(...) })
RECURSIVE CollectHeadings(_, _)
CollectHeadings(toks, page) ==
    IF toks = <<>> THEN <<>>
    ELSE LET rest == CollectHeadings(Tail(toks), page)
         IN  IF Head(toks).type = "heading"
             THEN <<[level |-> Head(toks).depth, text |-> Head(toks).text,
                     page |-> page]>> \o rest
             ELSE rest

TocNote(d) == [d EXCEPT !.tocPages = @ \cup {d.cur}]

\* the title 'Table of Contents'
TocTitle(s) ==
    IF version = "fixed"
    THEN LET a == HeaderFont(CheckPageBreak(s, Pt(100)), 20, "primary")
             b == [a EXCEPT !.doc = TocNote(Draw(@, 1))]
         IN  MoveDown(b, Pt(40))
    ELSE LET a == HeaderFont(s, 18, "primary")
             b == [a EXCEPT !.doc = TocNote(Draw(@, 1))]
         IN  MoveDown(b, Pt(30))

\* TocIndent counting the levels from 0
TocIndentFromLevel(item) == item.level * Pt(20)

TocIndent(item) == (item.level - 1) * Pt(20)

TocLine(d, item, y) ==
    TocNote(Draw([d EXCEPT !.toc = Append(@, [level |-> item.level, text |-> item.text,
                                               page |-> item.page, y |-> y,
                                               x |-> opts.margins.left + TocIndent(item),
                                               on |-> d.cur])], 1))

\* one call of the callback of tableOfContents.forEach
TocEntry(s, item) ==
    IF version = "fixed"
    THEN LET a == BodyFont(CheckPageBreak(s, Pt(25)), 11, "text")
             b == [a EXCEPT !.doc = TocLine(@, item, a.y)]
         IN  MoveDown(b, Pt(18))
    ELSE LET a == BodyFont(s, 11, "text")
             b == [a EXCEPT !.doc = TocLine(@, item, a.y)]
         IN  MoveDown(b, Pt(15))

---------------------------------------------------------------------------
(* streamTextAsPDF: the end *)

\* part_003: the loop over doc.bufferedPageRange(), from page i on
RECURSIVE PageNumberPass(_, _)
PageNumberPass(d, i) ==
    IF i > Len(d.pages) THEN d
    ELSE LET on == [d EXCEPT !.cur = i]
             styled == SetStyle(on, "Helvetica", 9, "secondary")
             written == Draw(OnPage(styled, "pageTexts",
                                    Append(styled.pages[i].pageTexts, i)), 1)
         IN  PageNumberPass(written, i + 1)

---------------------------------------------------------------------------
(* streamTextAsPDF: the statements that throw.  currentTheme = themes[theme] *)
(* is undefined for a name that is no key of the registry, and reading a    *)
(* property of undefined throws a TypeError; so does reading token.items    *)
(* .length, item.tokens.map or item.text.length of an absent field.         *)

\* the keys of `themes`
ThemeNames ==
    IF version = "fixed"
    THEN {"professional", "modern", "elegant", "dark", "coding"}
    ELSE {"professional", "modern", "elegant", "dark"}

ThemeKnown == opts.theme \in ThemeNames

HasItems(token) == "items" \in DOMAIN token

\* TokenThrows with a default branch that rejects the kinds it does not know
TokenThrowsOnOther(token) ==
    token.type = "other" \/ (~ThemeKnown /\ token.type # "space")

\* the branch of a token that is no list reads currentTheme
TokenThrows(token) ==
    /\ ~ThemeKnown
    /\ CASE token.type = "space" -> FALSE
          [] token.type = "other" ->
                IF version = "fixed" THEN token.hasText \/ token.hasRaw
                ELSE token.hasText
          [] OTHER -> TRUE

\* the step at the current position throws
Throws ==
    CASE pc = "header" -> opts.includeHeader /\ ~ThemeKnown
      [] pc = "toc" ->
            /\ ~ThemeKnown
            /\ version = "fixed" => Len(CollectHeadings(tokens, 1)) > 0
      [] pc = "tocEntries" ->
            /\ tocIdx <= Len(tableOfContents)
            /\ version = "fixed"
            /\ tableOfContents[tocIdx].text = Undefined
      [] pc = "body" ->
            IF idx > Len(tokens) THEN opts.includeFooter /\ ~ThemeKnown
            ELSE IF tokens[idx].type = "list" THEN ~HasItems(tokens[idx])
            ELSE TokenThrows(tokens[idx])
      [] pc = "list" ->
            /\ itemIdx <= Len(tokens[idx].items)
            /\ \/ ~ThemeKnown
               \/ version = "enhanced" /\ tokens[idx].items[itemIdx] = Undefined
      [] pc = "pageNumbers" -> ~ThemeKnown
      [] OTHER -> FALSE

\* case 'code' up to doc.rect(...).fill('#f8fafc'), which is drawn before
\* .stroke(currentTheme.secondaryColor) is evaluated
CodeBackground(s) ==
    IF version = "fixed"
    THEN Shapes(MoveDown(CheckPageBreak(s, Pt(60)), Pt(20)), 1, "#f8fafc")
    ELSE Shapes(MoveDown(CheckPageBreak(s, Pt(40)), Pt(15)), 1, "#f1f5f9")

\* part_000: the bullet is drawn before item.tokens.map is evaluated
BulletEnhanced(s) ==
    LET a == CheckPageBreak(s, Pt(30))
    IN  [a EXCEPT !.doc = [DrawBullet(@, a.y + Pt(6), Undefined)
                              EXCEPT !.fill = "accent"]]

---------------------------------------------------------------------------
(* The state machine: one action per step of streamTextAsPDF *)

\* no request is being handled, and no filename made
NoServer == [reqs |-> <<>>, running |-> 0, themes |-> {}, handler |-> "none"]
NoInline == [version |-> "none", kind |-> "none", runs |-> <<>>, drawn |-> <<>>,
             made |-> FALSE]
NoFilename == [title |-> <<>>, safe |-> <<"unset">>, made |-> FALSE]

\* streamTextAsPDF is not running
NoRender ==
    /\ version = "fixed"
    /\ opts \in {o \in OptionChoices :
                    /\ o.margins = DefaultMargins
                    /\ o.includeHeader /\ o.includeFooter /\ o.includePageNumbers
                    /\ ~o.includeTableOfContents}
    /\ tokens = <<>>
    /\ pc = "open"
    /\ idx = 1
    /\ itemIdx = 1
    /\ tocIdx = 1
    /\ tableOfContents = <<>>
    /\ pageNumber = 0
    /\ yPosition = 0
    /\ doc = NewDocument
    /\ calls = <<>>
    /\ breaks = <<>>
    /\ clock = 0

TokenSeqs == UNION {[1..n -> TokenChoices] : n \in 0..MaxTokens}

\* the state after `const doc = new PDFDocument(...)` and the layout variables
Init ==
    /\ version \in Versions
    /\ opts \in OptionChoices
    /\ tokens \in TokenSeqs
    /\ pc = "header"
    /\ ~Throws
    /\ idx = 1
    /\ itemIdx = 1
    /\ tocIdx = 1
    /\ tableOfContents = <<>>
    /\ pageNumber = 1
    /\ yPosition = InitialY
    /\ doc = NewDocument
    /\ calls = <<>>
    /\ breaks = <<>>
    /\ clock = 0
    /\ server = NoServer
    /\ filename = NoFilename
    /\ inline = NoInline

Cur == [y |-> yPosition, pn |-> pageNumber, doc |-> doc, calls |-> <<>>,
        breaks |-> breaks, ev |-> <<>>]

Commit(s) ==
    /\ yPosition' = s.y
    /\ pageNumber' = s.pn
    /\ doc' = s.doc
    /\ calls' = s.calls
    /\ breaks' = s.breaks

\* addHeader(); setPosition(margins.left, yPosition)
InitialHeader ==
    /\ pc = "header"
    /\ ~Throws
    /\ Commit(AddHeader(Cur))
    /\ pc' = IF opts.includeTableOfContents THEN "toc" ELSE "body"
    /\ UNCHANGED <<server, filename, inline, clock, version, opts, tokens, idx, itemIdx, tocIdx, tableOfContents>>

\* the collection of the headings and the title of the table of contents
TocBegin ==
    /\ pc = "toc"
    /\ ~Throws
    /\ LET collected == CollectHeadings(tokens, IF version = "fixed" THEN pageNumber ELSE 1)
       IN  /\ tableOfContents' = collected
           /\ IF version = "fixed" /\ Len(collected) = 0
              THEN /\ pc' = "body"
                   /\ Commit(Cur)
              ELSE /\ pc' = "tocEntries"
                   /\ Commit(TocTitle(Cur))
    /\ tocIdx' = 1
    /\ UNCHANGED <<server, filename, inline, clock, version, opts, tokens, idx, itemIdx>>

TocEntryStep ==
    /\ pc = "tocEntries"
    /\ ~Throws
    /\ tocIdx <= Len(tableOfContents)
    /\ Commit(TocEntry(Cur, tableOfContents[tocIdx]))
    /\ tocIdx' = tocIdx + 1
    /\ UNCHANGED <<server, filename, inline, clock, version, opts, tokens, pc, idx, itemIdx, tableOfContents>>

\* doc.addPage(); pageNumber++; addHeader(); the reset of yPosition
TocBreak ==
    /\ pc = "tocEntries"
    /\ ~Throws
    /\ tocIdx > Len(tableOfContents)
    /\ Commit(ForcedBreak(Cur))
    /\ pc' = "body"
    /\ UNCHANGED <<server, filename, inline, clock, version, opts, tokens, idx, itemIdx, tocIdx, tableOfContents>>

\* one iteration of `for (const token of tokens)`, for a token that is no list
Token ==
    /\ pc = "body"
    /\ ~Throws
    /\ idx <= Len(tokens)
    /\ tokens[idx].type # "list"
    /\ Commit(RenderToken(Cur, tokens[idx]))
    /\ idx' = idx + 1
    /\ UNCHANGED <<server, filename, inline, clock, version, opts, tokens, pc, itemIdx, tocIdx, tableOfContents>>

ListStart ==
    /\ pc = "body"
    /\ ~Throws
    /\ idx <= Len(tokens)
    /\ tokens[idx].type = "list"
    /\ HasItems(tokens[idx])
    /\ Commit(ListBegin(Cur))
    /\ pc' = "list"
    /\ itemIdx' = 1
    /\ UNCHANGED <<server, filename, inline, clock, version, opts, tokens, idx, tocIdx, tableOfContents>>

ListItemStep ==
    /\ pc = "list"
    /\ ~Throws
    /\ itemIdx <= Len(tokens[idx].items)
    /\ Commit(ListItem(Cur, tokens[idx].items[itemIdx]))
    /\ itemIdx' = itemIdx + 1
    /\ UNCHANGED <<server, filename, inline, clock, version, opts, tokens, pc, idx, tocIdx, tableOfContents>>

ListFinish ==
    /\ pc = "list"
    /\ ~Throws
    /\ itemIdx > Len(tokens[idx].items)
    /\ Commit(ListEnd(Cur))
    /\ pc' = "body"
    /\ idx' = idx + 1
    /\ UNCHANGED <<server, filename, inline, clock, version, opts, tokens, itemIdx, tocIdx, tableOfContents>>

\* FinalFooter leaving the loop one token early
FinalFooterEarly ==
    /\ pc = "body"
    /\ ~Throws
    /\ idx >= Len(tokens)
    /\ Commit(AddFooter(Cur))
    /\ pc' = IF version = "fixed" /\ opts.includePageNumbers THEN "pageNumbers" ELSE "end"
    /\ UNCHANGED <<server, filename, inline, clock, version, opts, tokens, idx, itemIdx, tocIdx, tableOfContents>>

\* addFooter() after the loop
FinalFooter ==
    /\ pc = "body"
    /\ ~Throws
    /\ idx > Len(tokens)
    /\ Commit(AddFooter(Cur))
    /\ pc' = IF version = "fixed" /\ opts.includePageNumbers THEN "pageNumbers" ELSE "end"
    /\ UNCHANGED <<server, filename, inline, clock, version, opts, tokens, idx, itemIdx, tocIdx, tableOfContents>>

\* part_003: if (includePageNumbers && doc.bufferedPageRange) { ... }
PageNumbers ==
    /\ pc = "pageNumbers"
    /\ ~Throws
    /\ doc' = PageNumberPass(doc, 1)
    /\ calls' = <<>>
    /\ pc' = "end"
    /\ UNCHANGED <<server, filename, inline, clock, version, opts, tokens, idx, itemIdx, tocIdx, tableOfContents,
                   yPosition, pageNumber, breaks>>

\* doc.end()
End ==
    /\ pc = "end"
    /\ doc' = [doc EXCEPT !.ended = TRUE]
    /\ calls' = <<>>
    /\ pc' = "closed"
    /\ UNCHANGED <<server, filename, inline, clock, version, opts, tokens, idx, itemIdx, tocIdx, tableOfContents,
                   yPosition, pageNumber, breaks>>

Next ==
    \/ InitialHeader
    \/ TocBegin
    \/ TocEntryStep
    \/ TocBreak
    \/ Token
    \/ ListStart
    \/ ListItemStep
    \/ ListFinish
    \/ FinalFooter
    \/ PageNumbers
    \/ End

Spec == Init /\ [][Next]_vars

---------------------------------------------------------------------------
(* The runs in which the theme may be unknown and tokens malformed *)

RobustTokenSeqs == UNION {[1..n -> RobustTokenChoices] : n \in 0..MaxTokens}

\* the state on entry of streamTextAsPDF, with the defaults of the options
InitRobust ==
    /\ version \in Versions
    /\ opts \in RobustOptionChoices
    /\ tokens \in RobustTokenSeqs
    /\ pc = "open"
    /\ idx = 1
    /\ itemIdx = 1
    /\ tocIdx = 1
    /\ tableOfContents = <<>>
    /\ pageNumber = 0
    /\ yPosition = 0
    /\ doc = NewDocument
    /\ calls = <<>>
    /\ breaks = <<>>
    /\ clock = 0
    /\ server = NoServer
    /\ filename = NoFilename
    /\ inline = NoInline

\* currentTheme = themes[theme]; res.setHeader(...); new PDFDocument(...);
\* doc.pipe(res); the layout variables: none of them tests currentTheme
Open ==
    /\ pc = "open"
    /\ pc' = "header"
    /\ pageNumber' = 1
    /\ yPosition' = InitialY
    /\ doc' = NewDocument
    /\ UNCHANGED <<server, filename, inline, clock, version, opts, tokens, idx, itemIdx, tocIdx, tableOfContents,
                   calls, breaks>>

\* what the step has done when its exception leaves streamTextAsPDF: every
\* other failing access comes before the first drawing call of its step
BeforeThrow ==
    IF pc = "body" /\ idx <= Len(tokens) /\ tokens[idx].type = "list"
    THEN ListBegin(Cur)
    ELSE IF pc = "body" /\ idx <= Len(tokens) /\ tokens[idx].type = "code"
    THEN CodeBackground(Cur)
    ELSE IF pc = "list" /\ ThemeKnown
    THEN BulletEnhanced(Cur)
    ELSE Cur

\* Raise with a catch around the step that goes on to doc.end()
RaiseSwallowed ==
    /\ Throws
    /\ Commit(BeforeThrow)
    /\ pc' = "end"
    /\ UNCHANGED <<server, filename, inline, clock, version, opts, tokens, idx, itemIdx, tocIdx, tableOfContents>>

\* a TypeError leaves streamTextAsPDF, which has no try, catch or finally
Raise ==
    /\ Throws
    /\ Commit(BeforeThrow)
    /\ pc' = "thrown"
    /\ tableOfContents' = IF pc = "toc" THEN CollectHeadings(tokens, pageNumber)
                           ELSE tableOfContents
    /\ UNCHANGED <<server, filename, inline, clock, version, opts, tokens, idx, itemIdx, tocIdx>>

\* the day changes while streamTextAsPDF runs
Midnight ==
    /\ pc \notin {"open", "closed", "thrown"}
    /\ clock < MaxClock
    /\ clock' = clock + 1
    /\ UNCHANGED <<version, opts, tokens, pc, idx, itemIdx, tocIdx, tableOfContents,
                   yPosition, pageNumber, doc, calls, breaks, server, filename, inline>>

NextRobust ==
    \/ Open
    \/ Raise
    \/ Midnight
    \/ Next

SpecRobust == InitRobust /\ [][NextRobust]_vars

---------------------------------------------------------------------------
(* POST /api/generate-pdf (server.ts:358-451): several requests on one      *)
(* event loop.  The code of a handler runs without interruption from one    *)
(* await to the next; server.running is the request whose code is running,  *)
(* 0 when the event loop is idle.  The render of a request is streamTextAsPDF *)
(* reduced to its document, its pageNumber and the pages it allocates.      *)

MaxRequests == 2
MaxPages == 2

Requests == 1..MaxRequests

\* req.body, with what the content of the request comes to: whether
\* callGemini resolves, and the pages the text takes
\* the three versions of the handler of POST /api/generate-pdf
HandlerVersions == {"oldest", "first", "second"}

\* messages, as the sequences of their words
NoMessage == <<>>
PromptRequired == <<"A", "non-empty", "prompt", "is", "required.">>
ApiKeyMessage == <<"The", "server's", "API", "key", "is", "invalid", "or", "missing.">>
GenericMessage == <<"An", "error", "occurred", "while", "generating", "the", "document.">>
FailedPrefix == <<"Document", "generation", "failed:">>

\* err.message of what callGemini rejects with, and of the TypeError of
\* themes[theme].primary for a theme that is no key of themes
GeminiErrors ==
    {<<"API", "key", "not", "valid.">>, <<"API", "key", "expired.">>,
     <<"No", "output", "text", "found">>}
ThemeError == <<"Cannot", "read", "properties", "of", "undefined">>

\* String.prototype.includes, on words
Includes(msg, needle) ==
    \E i \in 1..(Len(msg) - Len(needle) + 1) :
        SubSeq(msg, i, i + Len(needle) - 1) = needle

\* clientMessage of the catch of each handler
ClientMessage(handler, msg) ==
    IF handler = "second"
    THEN IF Includes(msg, <<"API", "key">>)
         THEN ApiKeyMessage
         ELSE FailedPrefix \o msg
    ELSE IF Includes(msg, <<"API", "key", "not", "valid.">>)
         THEN ApiKeyMessage
         ELSE GenericMessage

RequestChoices ==
    {q \in [prompt : {"missing", "present"}, useAI : BOOLEAN,
            theme : {"professional", "nonexistent-theme"},
            pages : 1..MaxPages, gemini : {"resolves", "rejects"},
            error : GeminiErrors \cup {NoMessage}] :
        /\ q.prompt = "missing" =>
              q.useAI /\ q.theme = "professional" /\ q.pages = 1 /\ q.gemini = "resolves"
        /\ ~q.useAI => q.gemini = "resolves"
        /\ q.gemini = "resolves" <=> q.error = NoMessage
        /\ q.gemini = "rejects" => q.theme = "professional" /\ q.pages = 1
        /\ q.theme # "professional" => q.pages = 1}

NoDoc == [open |-> FALSE, by |-> {}, pages |-> 0, ended |-> FALSE]
NoResponse ==
    [status |-> 0, from |-> 0, body |-> {}, error |-> FALSE, json |-> NoMessage,
     pdfHeaders |-> FALSE, piped |-> FALSE]

NewRequest(q) ==
    [input |-> q, pc |-> "new", finalText |-> "none", pageNumber |-> 0,
     doc |-> NoDoc, res |-> NoResponse, geminiCalled |-> FALSE]

InitServer ==
    /\ NoRender
    /\ filename = NoFilename
    /\ inline = NoInline
    /\ \E input \in [Requests -> RequestChoices], handler \in HandlerVersions :
          server = [reqs |-> [r \in Requests |-> NewRequest(input[r])],
                    running |-> 0, themes |-> ThemeNames, handler |-> handler]

Req(r) == server.reqs[r]

\* Idle for handlers that run in parallel
IdleAlways == TRUE

\* no code is running: the event loop takes the next event
Idle == server.running = 0

\* the code of request r is the code that is running
Runnable(r) == server.running = r

\* res.status(status).json({ error: msg })
Json(res, status, msg) ==
    [res EXCEPT !.status = status, !.error = TRUE, !.json = msg]

\* the theme createStyledPDF renders with: the oldest handler passes none
ThemeOf(r) ==
    IF server.handler = "oldest" THEN "professional" ELSE Req(r).input.theme

\* request r goes to state q, and the event loop to `running`
Put(r, q, running) ==
    /\ server' = [server EXCEPT !.reqs[r] = q, !.running = running]
    /\ UNCHANGED <<renderVars, filename, inline>>

\* server.ts:359-436: the handler up to its first await, or to createStyledPDF
Accept(r) ==
    /\ Idle
    /\ Req(r).pc = "new"
    /\ IF Req(r).input.prompt = "missing"
       THEN Put(r, [Req(r) EXCEPT !.pc = "done",
                                  !.res = Json(@, 400, PromptRequired)], 0)
       ELSE IF Req(r).input.useAI
       THEN Put(r, [Req(r) EXCEPT !.pc = "awaiting", !.finalText = "prompt",
                                  !.geminiCalled = TRUE], 0)
       ELSE Put(r, [Req(r) EXCEPT !.pc = "open", !.finalText = "prompt"], r)

\* server.ts:429-433, 444-450: await callGemini(...) resolves, or rejects
\* and the catch answers 500
GeminiSettles(r) ==
    /\ Idle
    /\ Req(r).pc = "awaiting"
    /\ IF Req(r).input.gemini = "resolves"
       THEN Put(r, [Req(r) EXCEPT !.pc = "open", !.finalText = "generated"], r)
       ELSE Put(r, [Req(r) EXCEPT
                       !.pc = "done",
                       !.res = Json(@, 500, ClientMessage(server.handler,
                                                          Req(r).input.error))], 0)

\* part_003:108-136: headers, new PDFDocument, doc.pipe(res), let pageNumber = 1
RenderOpen(r) ==
    /\ Runnable(r)
    /\ Req(r).pc = "open"
    /\ Put(r, [Req(r) EXCEPT !.pc = "header", !.pageNumber = 1,
                              !.doc = [open |-> TRUE, by |-> {}, pages |-> 1,
                                       ended |-> FALSE],
                              !.res.from = r, !.res.pdfHeaders = TRUE,
                              !.res.piped = TRUE], server.running)

\* part_003:242: addHeader(), which throws for a theme that is no key of
\* themes; the catch of the handler (server.ts:444-450) answers 500
RenderHeader(r) ==
    /\ Runnable(r)
    /\ Req(r).pc = "header"
    /\ IF ThemeOf(r) \in server.themes
       THEN Put(r, [Req(r) EXCEPT !.pc = "body", !.doc.by = @ \cup {r}], server.running)
       ELSE Put(r, [Req(r) EXCEPT
                       !.pc = "done",
                       !.res = Json(@, 500, ClientMessage(server.handler,
                                                          ThemeError))], 0)

\* part_003:202-221: a page transition of the body loop
RenderPage(r) ==
    /\ Runnable(r)
    /\ Req(r).pc = "body"
    /\ Req(r).pageNumber < Req(r).input.pages
    /\ Put(r, [Req(r) EXCEPT !.pageNumber = @ + 1, !.doc.pages = @ + 1,
                              !.doc.by = @ \cup {r}], server.running)

\* part_003:560: doc.end(); streamTextAsPDF and the handler return
RenderEnd(r) ==
    /\ Runnable(r)
    /\ Req(r).pc = "body"
    /\ Req(r).pageNumber = Req(r).input.pages
    /\ Put(r, [Req(r) EXCEPT !.pc = "ended", !.doc.ended = TRUE], 0)

\* the bytes of the ended document reach the response it is piped to
Flush(r) ==
    /\ Idle
    /\ Req(r).pc = "ended"
    /\ Put(r, [Req(r) EXCEPT !.pc = "done", !.res.status = 200,
                              !.res.body = Req(Req(r).res.from).doc.by], 0)

NextServer ==
    \E r \in Requests :
        \/ Accept(r)
        \/ GeminiSettles(r)
        \/ RenderOpen(r)
        \/ RenderHeader(r)
        \/ RenderPage(r)
        \/ RenderEnd(r)
        \/ Flush(r)

SpecServer == InitServer /\ [][NextServer]_vars

---------------------------------------------------------------------------
(* sanitizeFilename (part_003:8-10).  A string is the sequence of its       *)
(* characters, each a string of length one.                                 *)

MaxTitle == 3
Cap == 100

Separators == {"/", "\\"}

\* [a-zA-Z0-9_.-]
AllowedChars ==
    {"a", "b", "c", "d", "e", "f", "g", "h", "i", "j", "k", "l", "m",
     "n", "o", "p", "q", "r", "s", "t", "u", "v", "w", "x", "y", "z",
     "A", "B", "C", "D", "E", "F", "G", "H", "I", "J", "K", "L", "M",
     "N", "O", "P", "Q", "R", "S", "T", "U", "V", "W", "X", "Y", "Z",
     "0", "1", "2", "3", "4", "5", "6", "7", "8", "9", "_", ".", "-"}

\* the characters the titles are made of: allowed ones, separators, others
TitleChars == {"a", "Z", "7", "_", ".", "-", "/", "\\", " ", "?"}

\* the titles: all the short ones, and long ones around the cap
Titles ==
    UNION {[1..n -> TitleChars] : n \in 0..MaxTitle} \cup
    {<<x>> \o [i \in 1..n |-> c] :
        x \in TitleChars, c \in {"a", "/", "?"}, n \in (Cap - 2)..(Cap + 1)}

\* RemoveSeparators putting '_' for a separator
ReplaceSeparators(s) == [i \in 1..Len(s) |-> IF s[i] \in Separators THEN "_" ELSE s[i]]

\* .replace(/[\/\\]/g, '')
RemoveSeparators(s) == SelectSeq(s, LAMBDA c : c \notin Separators)

\* .replace(/[^a-zA-Z0-9_.-]/g, '_')
ReplaceDisallowed(s) == [i \in 1..Len(s) |-> IF s[i] \in AllowedChars THEN s[i] ELSE "_"]

\* .slice(0, n)
Slice(s, n) == SubSeq(s, 1, IF Len(s) < n THEN Len(s) ELSE n)

sanitizeFilename(name) == Slice(ReplaceDisallowed(RemoveSeparators(name)), Cap)

InitFilename ==
    /\ NoRender
    /\ server = NoServer
    /\ inline = NoInline
    /\ \E title \in Titles : filename = [NoFilename EXCEPT !.title = title]

\* part_003:109: const safeFilename = sanitizeFilename(title)
Sanitize ==
    /\ ~filename.made
    /\ filename' = [filename EXCEPT !.safe = sanitizeFilename(filename.title),
                                    !.made = TRUE]
    /\ UNCHANGED <<renderVars, server, inline>>

NextFilename == Sanitize

SpecFilename == InitFilename /\ [][NextFilename]_vars

---------------------------------------------------------------------------
(* The text drawn for the inline runs of a paragraph or a list item.  A     *)
(* text is the sequence of its pieces: a payload, or a markup delimiter.    *)

MaxRuns == 2

\* the payloads of the runs
Words == {"a", "b"}

\* the inline tokens marked makes of a paragraph or of the text of a list
\* item: plain, strong and emphasis runs have a text, a line break has none
InlineRuns ==
    [type : {"text", "strong", "em"}, text : Words] \cup {[type |-> "br"]}

RunSeqs == UNION {[1..n -> InlineRuns] : n \in 0..MaxRuns}

BlockKinds == {"paragraph", "listItem"}

\* the markdown source a run was lexed from
RawOf(run) ==
    CASE run.type = "text"   -> <<run.text>>
      [] run.type = "strong" -> <<"**", run.text, "**">>
      [] run.type = "em"     -> <<"*", run.text, "*">>
      [] run.type = "br"     -> <<"\n">>

\* token.raw of a paragraph, and the text of the block-level text token of a
\* list item: the source of the runs, markup included
RECURSIVE Raw(_)
Raw(runs) ==
    IF runs = <<>> THEN <<>> ELSE RawOf(Head(runs)) \o Raw(Tail(runs))

\* item.tokens of a list item: one block-level text token that holds the
\* runs, none for an empty item
ItemTokens(runs) ==
    IF runs = <<>> THEN <<>>
    ELSE <<[type |-> "text", text |-> Raw(runs), raw |-> Raw(runs), tokens |-> runs]>>

\* item.tokens.map(t => t.text).join('')
RECURSIVE JoinTexts(_)
JoinTexts(ts) ==
    IF ts = <<>> THEN <<>> ELSE Head(ts).text \o JoinTexts(Tail(ts))

\* part_000: the loop over token.tokens, one doc.text(part.text) per part
\* that has a text
RECURSIVE PartTexts(_)
PartTexts(parts) ==
    IF parts = <<>> THEN <<>>
    ELSE (IF Head(parts).type = "br" THEN <<>> ELSE <<Head(parts).text>>)
         \o PartTexts(Tail(parts))

\* what the doc.text calls of the block draw
DrawnText(v, kind, runs) ==
    IF kind = "listItem"
    THEN JoinTexts(ItemTokens(runs))
    ELSE IF v = "fixed" THEN Raw(runs) ELSE PartTexts(runs)

InitInline ==
    /\ NoRender
    /\ server = NoServer
    /\ filename = NoFilename
    /\ \E v \in Versions, kind \in BlockKinds, runs \in RunSeqs :
          inline = [NoInline EXCEPT !.version = v, !.kind = kind, !.runs = runs]

\* the doc.text calls of case 'paragraph', or of one list item
DrawInline ==
    /\ ~inline.made
    /\ inline' = [inline EXCEPT
                     !.drawn = DrawnText(inline.version, inline.kind, inline.runs),
                     !.made = TRUE]
    /\ UNCHANGED <<renderVars, server, filename>>

NextInline == DrawInline

SpecInline == InitInline /\ [][NextInline]_vars

---------------------------------------------------------------------------
(* Properties *)

PageCount == Len(doc.pages)

NoOverlapOn(p) ==
    LET b == doc.pages[p].blocks
    IN  \A i \in 1..(Len(b) - 1) : b[i + 1].y >= b[i].y + b[i].h

\* C2: in the FIXED version no two adjacent blocks drawn on the same page
\* overlap vertically.
BlocksDoNotOverlap ==
    version = "fixed" => \A p \in 1..PageCount : NoOverlapOn(p)

\* C3: in the FIXED version, after every call of checkPageBreak or moveDown
\* yPosition lies in [margins.top, pageHeight - margins.bottom], for any
\* margins.
CursorWithinMargins ==
    version = "fixed" =>
        \A i \in 1..Len(calls) :
            /\ calls[i].after.y >= opts.margins.top
            /\ calls[i].after.y <= PageHeight - opts.margins.bottom

\* the names of the steps of transition i, in the order they were made
StepsOf(i) == [k \in 1..Len(breaks[i].events) |-> breaks[i].events[k].op]

FullTransition ==
    (IF opts.includeFooter THEN <<"addFooter">> ELSE <<>>) \o
    <<"addPage", "pageNumber">> \o
    (IF opts.includeHeader THEN <<"addHeader">> ELSE <<>>) \o
    <<"reset">>

\* C4: in the FIXED version every transition to a new page, automatic or
\* forced, renders the footer of the page being left (when includeFooter),
\* allocates the page, increments pageNumber, renders the header (when
\* includeHeader) and resets yPosition below the header, in this order.
TransitionsAreComplete ==
    version = "fixed" =>
        \A i \in 1..Len(breaks) :
            LET ev == breaks[i].events
            IN  /\ StepsOf(i) = FullTransition
                /\ opts.includeFooter => ev[1].page + 1 = ev[Len(ev)].page
                /\ ev[Len(ev)].y = opts.margins.top
                                   + (IF opts.includeHeader THEN Pt(90) ELSE Pt(30))

\* C5: when the FIXED version has closed a document with includeFooter and
\* includePageNumbers, every page carries the footer's rule and date, and
\* every 'Page n' written on a page has n equal to the page's index.
EveryPageHasNumberedFooter ==
    (version = "fixed" /\ pc = "closed" /\ opts.includeFooter /\ opts.includePageNumbers)
        => \A p \in 1..PageCount :
              /\ doc.pages[p].footer >= 1
              /\ doc.pages[p].pageTexts # <<>>
              /\ \A k \in 1..Len(doc.pages[p].pageTexts) : doc.pages[p].pageTexts[k] = p

NoFooterWhenDisabled ==
    (version = "fixed" /\ ~opts.includeFooter)
        => \A p \in 1..PageCount :
              doc.pages[p].footer = 0 /\ doc.pages[p].pageTexts = <<>>

\* whether the space asked for fits below the cursor on the current page
Fits(y, requiredSpace) ==
    IF version = "fixed"
    THEN (PageHeight - (IF opts.includeFooter THEN Pt(60) ELSE opts.margins.bottom)) - y
             >= requiredSpace
    ELSE y + requiredSpace <= PageHeight - opts.margins.bottom - Pt(50)

\* C8: checkPageBreak only looks ahead: when the space fits it changes
\* neither yPosition nor pageNumber nor the pages and draws nothing; when it
\* does not fit it makes one page transition and leaves yPosition at the
\* start of the fresh page, without adding the required space.
CheckPageBreakLooksAhead ==
    \A i \in 1..Len(calls) :
        calls[i].fn = "checkPageBreak" =>
            IF Fits(calls[i].before.y, calls[i].arg)
            THEN calls[i].after = calls[i].before
            ELSE /\ calls[i].after.pages = calls[i].before.pages + 1
                 /\ calls[i].after.pn = calls[i].before.pn + 1
                 /\ calls[i].after.y =
                        IF version = "fixed"
                        THEN opts.margins.top + (IF opts.includeHeader THEN Pt(90) ELSE Pt(30))
                        ELSE opts.margins.top + Pt(80)

\* C8 witness: one step in which a checkPageBreak fits and another one breaks
FittingAndBreakingCalls ==
    /\ \E i \in 1..Len(calls) :
          /\ calls[i].fn = "checkPageBreak"
          /\ calls[i].after = calls[i].before
    /\ \E i \in 1..Len(calls) :
          /\ calls[i].fn = "checkPageBreak"
          /\ calls[i].after.pages > calls[i].before.pages

TocPassOver == pc \notin {"header", "toc", "tocEntries"}

HasHeading == \E i \in 1..Len(tokens) : tokens[i].type = "heading"

ForcedBreakMade == \E i \in 1..Len(breaks) : breaks[i].kind = "forced"

\* every page with drawing of a body token comes after every page with
\* drawing of the table of contents
BodyAfterToc ==
    \A p \in doc.tocPages, q \in 1..PageCount : doc.pages[q].body > 0 => q > p

\* C9: in the FIXED version with includeTableOfContents, for any token
\* sequence a forced page break follows the table-of-contents pass, and the
\* body is drawn on pages strictly after those of the table of contents.
ForcedBreakAfterToc ==
    (version = "fixed" /\ opts.includeTableOfContents /\ TocPassOver)
        => ForcedBreakMade /\ BodyAfterToc

\* C9 as amended: the forced break is made exactly when the token sequence
\* has a heading (with none, no table of contents is drawn); either way the
\* body is drawn on pages strictly after those of the table of contents.
ForcedBreakAfterDrawnToc ==
    (version = "fixed" /\ opts.includeTableOfContents /\ TocPassOver)
        => /\ ForcedBreakMade <=> HasHeading
           /\ ~HasHeading => doc.tocPages = {}
           /\ BodyAfterToc

\* C9 witness: a closed document with a table of contents and body drawing
BodyDrawnAfterToc ==
    /\ version = "fixed"
    /\ pc = "closed"
    /\ doc.tocPages # {}
    /\ \E q \in 1..PageCount : doc.pages[q].body > 0

Headings == SelectSeq(tokens, LAMBDA tok : tok.type = "heading")

\* C10: the table of contents drawn lists the heading tokens, one entry
\* each, in document order, with the heading's depth and text, indented by
\* (depth - 1) * 20 from the left margin, in both versions.
TocListsHeadings ==
    opts.includeTableOfContents =>
        /\ Len(doc.toc) <= Len(Headings)
        /\ TocPassOver => Len(doc.toc) = Len(Headings)
        /\ \A i \in 1..Len(doc.toc) :
              /\ doc.toc[i].level = Headings[i].depth
              /\ doc.toc[i].text = Headings[i].text
              /\ doc.toc[i].x = opts.margins.left + (Headings[i].depth - 1) * Pt(20)

\* C10 witness: a table of contents drawn with two entries of different depth
TwoTocEntries ==
    /\ TocPassOver
    /\ Len(doc.toc) = 2
    /\ doc.toc[1].level # doc.toc[2].level

\* the pages on which a heading token is drawn as a block
HeadingPages ==
    {p \in 1..PageCount :
        \E k \in 1..Len(doc.pages[p].blocks) : doc.pages[p].blocks[k].kind = "heading"}

PhaseOf(p) ==
    CASE p = "header" -> 1
      [] p \in {"toc", "tocEntries"} -> 2
      [] p \in {"body", "list"} -> 3
      [] p \in {"pageNumbers", "end"} -> 4
      [] p = "closed" -> 5

FootersDrawn(d) == d.pages[d.cur].footer

\* C12: a run goes through header, optional table of contents, body
\* iteration, final footer and close in this order: the header of page 1
\* comes before any other drawing, the tokens are dispatched one by one in
\* input order, the loop is left only after the last token and by one final
\* addFooter, doc.end comes after it and no step follows doc.end.
PhaseOrder ==
    /\ [](/\ pc = "header" => doc.draws = 0 /\ idx = 1
          /\ pc # "header" =>
                doc.pages[1].header = (IF opts.includeHeader THEN 1 ELSE 0)
          /\ PhaseOf(pc) = 2 => idx = 1
          /\ PhaseOf(pc) >= 4 => idx = Len(tokens) + 1
          /\ doc.ended <=> pc = "closed")
    /\ [][/\ PhaseOf(pc') >= PhaseOf(pc)
          /\ PhaseOf(pc) = 1 => PhaseOf(pc') \in {2, 3}
          /\ PhaseOf(pc) = 2 => PhaseOf(pc') \in {2, 3}
          /\ idx' \in {idx, idx + 1}
          /\ idx' = idx + 1 => PhaseOf(pc) = 3 /\ idx <= Len(tokens)
          /\ (PhaseOf(pc) = 3 /\ PhaseOf(pc') # 3) =>
                /\ PhaseOf(pc') = 4
                /\ idx > Len(tokens)
                /\ FootersDrawn(doc') - FootersDrawn(doc)
                      = (IF opts.includeFooter THEN 1 ELSE 0)
          /\ PhaseOf(pc) = 4 => FootersDrawn(doc') = FootersDrawn(doc)
          /\ ~doc.ended]_vars

\* C12 witness: a closed document with header, table of contents, two
\* dispatched tokens, one of them a list, and the final footer
AllPhasesVisited ==
    /\ pc = "closed"
    /\ opts.includeHeader /\ opts.includeFooter
    /\ doc.tocPages # {}
    /\ Len(tokens) = 2 /\ idx = 3
    /\ \E i \in 1..2 : tokens[i].type = "list"
    /\ FootersDrawn(doc) = 1

HasOther == \E i \in 1..Len(tokens) : tokens[i].type = "other"

\* what a step of a run makes grow: the phase, then the entries, tokens and
\* items behind the position
Progress ==
    PhaseOf(pc) * 10000 + tocIdx * 1000 + idx * 100
        + (IF pc = "list" THEN 10 + itemIdx ELSE 0)
        + (IF pc \in {"tocEntries", "end"} THEN 1 ELSE 0)

\* C16: with tokens of unrecognized kinds among well-formed tokens, with or
\* without a payload, no step of the run throws; the step that dispatches
\* such a token goes on to the next token, every step brings the run forward
\* and the document is closed only after every token has been dispatched.
UnknownKindsDoNotAbort ==
    /\ [](HasOther =>
            /\ ~Throws
            /\ pc = "closed" => idx = Len(tokens) + 1 /\ doc.ended)
    /\ [][HasOther =>
            /\ Progress' > Progress
            /\ (pc = "body" /\ idx <= Len(tokens) /\ tokens[idx].type = "other")
                  => idx' = idx + 1 /\ pc' = "body"]_vars

\* C16 witness: a closed document in which a token follows one of an
\* unrecognized kind without payload, and one with payload has been drawn
OtherTokensPassed ==
    /\ pc = "closed"
    /\ Len(tokens) = 2
    /\ tokens[1].type = "other" /\ ~tokens[1].hasText /\ ~tokens[1].hasRaw
    /\ tokens[2].type = "other" /\ tokens[2].hasText
    /\ \E p \in 1..PageCount :
          \E k \in 1..Len(doc.pages[p].blocks) : doc.pages[p].blocks[k].kind = "other"

\* streamTextAsPDF has returned or an exception has left it
Exited == pc \in {"closed", "thrown"}

\* C13: on every exit of streamTextAsPDF, by return or by an exception, the
\* document piped to the response has been closed by doc.end().
StreamClosedOnEveryExit == Exited => doc.ended

UnknownThemeHandled ==
    ~ThemeKnown => /\ pc \in {"open", "thrown"}
                   /\ pageNumber = 0
                   /\ doc.draws = 0

RECURSIVE Flatten(_, _, _)
Flatten(pages, field, p) ==
    IF p > Len(pages) THEN <<>>
    ELSE pages[p][field] \o Flatten(pages, field, p + 1)

HeadersDrawn == Flatten(doc.pages, "headers", 1)
FootersOfDoc == Flatten(doc.pages, "footers", 1)

Undated(f) == [f EXCEPT !.date = 0]

InRender(r) == Req(r).pc \in {"header", "body"}

\* C19: with several requests in flight, the render of a request starts
\* only after its content is there (after callGemini has resolved, when it
\* is used); from open to doc.end it is the only code running and no step
\* changes another request; a request has its own pageNumber and document,
\* into which only its own render draws and which only its own response is
\* piped from and receives; the themes registry stays as it is.
RendersAreIsolated ==
    /\ [](/\ server.themes = ThemeNames
          /\ \A r \in Requests :
                /\ InRender(r) => server.running = r
                /\ Req(r).doc.open =>
                      /\ Req(r).finalText =
                            (IF Req(r).input.useAI THEN "generated" ELSE "prompt")
                      /\ Req(r).pageNumber = Req(r).doc.pages
                      /\ Req(r).pageNumber <= Req(r).input.pages
                /\ Req(r).doc.by \subseteq {r}
                /\ Req(r).doc.ended => Req(r).pageNumber = Req(r).input.pages
                /\ Req(r).res.from \in {0, r}
                /\ Req(r).res.body \subseteq {r}
                /\ Req(r).res.status = 200 => Req(r).res.body = {r} /\ Req(r).doc.ended)
    /\ [][\A r \in Requests :
            InRender(r) => \A q \in Requests \ {r} : Req(q)' = Req(q)]_vars

\* C19 witness: two requests that both awaited callGemini have each got
\* their own document of two pages
TwoRendersDelivered ==
    /\ \A r \in {1, 2} :
          /\ Req(r).input.useAI
          /\ Req(r).input.pages = 2
          /\ Req(r).pc = "done"
          /\ Req(r).res.status = 200
          /\ Req(r).res.body = {r}

\* the positions from lo to hi of the characters of s that are no path
\* separators, in order
RECURSIVE NonSeparatorsIn(_, _, _)
NonSeparatorsIn(s, lo, hi) ==
    IF lo > hi THEN <<>>
    ELSE IF lo = hi THEN (IF s[lo] \in Separators THEN <<>> ELSE <<lo>>)
    ELSE LET mid == (lo + hi) \div 2
         IN  NonSeparatorsIn(s, lo, mid) \o NonSeparatorsIn(s, mid + 1, hi)

\* C20: for every title, sanitizeFilename returns at most 100 characters,
\* all from [A-Za-z0-9_.-] and so none a path separator: they are, in order,
\* the first 100 characters of the title that are no path separators, each
\* kept if it is allowed and replaced by '_' if not.
SafeFilenameIsSafe ==
    filename.made =>
        LET title == filename.title
            safe == filename.safe
            kept == NonSeparatorsIn(title, 1, Len(title))
        IN  /\ Len(safe) <= 100
            /\ \A k \in 1..Len(safe) : safe[k] \in AllowedChars \ {"/", "\\"}
            /\ Len(safe) = (IF Len(kept) < 100 THEN Len(kept) ELSE 100)
            /\ \A k \in 1..Len(safe) :
                  safe[k] = (IF title[kept[k]] \in AllowedChars THEN title[kept[k]]
                             ELSE "_")

\* C20 witness: a title of more than 100 characters that begins with a
\* path separator and goes on with disallowed characters, cut to 100
LongTitleSanitized ==
    /\ filename.made
    /\ Len(filename.title) > 100
    /\ filename.title[1] = "/"
    /\ filename.title[2] = "?"
    /\ Len(filename.safe) = 100
    /\ filename.safe[1] = "_"

---------------------------------------------------------------------------
(* The body of an error response.                                           *)

\* the messages that say nothing of the error they answer
GenericMessages == {PromptRequired, ApiKeyMessage, GenericMessage}

\* the errors the catch of a handler can receive
Errors == GeminiErrors \cup {ThemeError}

\* C21: in every version of the handler, the body of an error response is
\* one of a fixed set of generic messages, and never contains the text of
\* the underlying error.
ErrorBodyIsGeneric ==
    \A r \in Requests :
        Req(r).res.error =>
            /\ Req(r).res.json \in GenericMessages
            /\ \A e \in Errors : ~Includes(Req(r).res.json, e)

---------------------------------------------------------------------------
(* The blocks of measured text.                                             *)

\* the blocks drawn so far, page after page
AllBlocks == Flatten(doc.pages, "blocks", 1)

\* the kinds of block whose text is of variable length
VariableKinds == {"paragraph", "listItem", "blockquote", "code", "other"}

\* block b was measured as it was drawn
MeasuredWith(b) ==
    /\ b.m.font = b.font
    /\ b.m.size = b.size
    /\ b.m.width = b.width
    /\ b.m.lineGap = b.lineGap

\* the text of code block b, drawn 20 below the top of its box, ends within it
InsideBox(b) == b.h + Pt(20) <= b.box

\* C22: in the FIXED version every block of variable-length text is drawn
\* with the font, size and wrap width its height was measured with, the
\* height of its box and its cursor advance come from that measurement, and
\* the text of a code block does not extend below its box.
MeasuredAsDrawn ==
    version = "fixed" =>
        \A k \in 1..Len(AllBlocks) :
            LET b == AllBlocks[k]
            IN  b.kind \in VariableKinds =>
                    /\ MeasuredWith(b)
                    /\ b.advance >= b.m.h
                    /\ b.kind \in {"blockquote", "code"} => b.box >= b.m.h + Pt(20)
                    /\ b.kind = "code" => InsideBox(b)

\* the kinds of block whose height is measured before the text is drawn
MeasuredKinds == {"paragraph", "listItem", "blockquote", "code"}

\* the height between the start of a fresh page and the footer zone
UsableHeight == PageHeight - FooterSpace - FreshPageY

\* where the text of block b ends, by the height measured for it
Bottom(b) == b.y + b.m.h

\* C23: in the FIXED version every measured block whose measured height is at
\* most the usable height of a fresh page is drawn entirely above the footer
\* zone: its bottom edge is at most pageHeight - footerSpace.
MeasuredBlocksAboveFooter ==
    version = "fixed" =>
        \A k \in 1..Len(AllBlocks) :
            LET b == AllBlocks[k]
            IN  b.kind \in MeasuredKinds /\ b.m.h <= UsableHeight =>
                    Bottom(b) <= PageHeight - FooterSpace

\* C24: in the FIXED version a paragraph is always drawn with the body font,
\* the configured fontSize and the text colour, and is as high as it was
\* measured to be, also when the space check before the drawing breaks the
\* page and draws a footer and a header.
ParagraphStyleKept ==
    version = "fixed" =>
        \A k \in 1..Len(AllBlocks) :
            LET b == AllBlocks[k]
            IN  b.kind = "paragraph" =>
                    /\ b.font = "Helvetica"
                    /\ b.size = opts.fontSize
                    /\ b.fill = "text"
                    /\ b.h = b.m.h

\* the rules drawn on page p that are not on the page of their heading's text
StrayRules(p) ==
    {k \in 1..Len(doc.pages[p].rules) : doc.pages[p].rules[k].headingPage # p}

\* C25: in the FIXED version the accent rule of a depth-1 heading and the
\* underline of a depth-2 heading are drawn on the page of the heading's
\* text, beneath that text, wherever on the page the heading is reached.
RuleBeneathHeading ==
    version = "fixed" =>
        \A p \in 1..PageCount :
            /\ StrayRules(p) = {}
            /\ \A k \in 1..Len(doc.pages[p].rules) :
                  LET r == doc.pages[p].rules[k]
                  IN  r.y >= r.headingY + r.headingH

---------------------------------------------------------------------------
(* The bullets of the lists.                                                *)

\* the bullets drawn so far, page after page
AllBullets == Flatten(doc.pages, "bullets", 1)

\* the items of the list tokens among the first k tokens, in order
RECURSIVE ItemsOf(_)
ItemsOf(k) ==
    IF k = 0 THEN <<>>
    ELSE ItemsOf(k - 1) \o (IF tokens[k].type = "list" THEN tokens[k].items ELSE <<>>)

\* the items the body loop has rendered so far
ItemsRendered ==
    IF pc = "list"
    THEN ItemsOf(idx - 1) \o SubSeq(tokens[idx].items, 1, itemIdx - 1)
    ELSE ItemsOf(idx - 1)

\* C26: in both versions exactly one bullet is drawn per list item, in the
\* order of the items and with none skipped, and the bullets drawn on one
\* page are at strictly increasing vertical positions.
OneBulletPerItem ==
    /\ [k \in 1..Len(AllBullets) |-> AllBullets[k].item] = ItemsRendered
    /\ \A p \in 1..PageCount :
          \A k \in 1..(Len(doc.pages[p].bullets) - 1) :
              doc.pages[p].bullets[k].y < doc.pages[p].bullets[k + 1].y

\* C26 witness: a finished document of two lists of two items each, with
\* two bullets on one page and bullets on more than one page
BulletsOnSeveralPages ==
    /\ pc = "closed"
    /\ Len(AllBullets) = 4
    /\ \E p \in 1..PageCount : Len(doc.pages[p].bullets) >= 2
    /\ Cardinality({p \in 1..PageCount : doc.pages[p].bullets # <<>>}) >= 2

---------------------------------------------------------------------------
(* The text of the inline runs.                                             *)

\* the text payloads of the runs, left to right
RECURSIVE Payloads(_)
Payloads(runs) ==
    IF runs = <<>> THEN <<>>
    ELSE (IF Head(runs).type = "br" THEN <<>> ELSE <<Head(runs).text>>)
         \o Payloads(Tail(runs))

\* a drawn text without its line breaks
IsVisible(piece) == piece # "\n"
Visible(text) == SelectSeq(text, IsVisible)

\* C27: for every paragraph and every list item the text drawn is, line
\* breaks apart, the concatenation, left to right, of the text payloads of
\* its inline runs: no run is dropped, reordered or duplicated, and nothing
\* else is drawn.
InlineTextInOrder ==
    inline.made => Visible(inline.drawn) = Payloads(inline.runs)

---------------------------------------------------------------------------
(* Pages without content.                                                   *)

\* page p holds a drawing of the body or of the table of contents
HasContent(p) == doc.pages[p].body > 0 \/ p \in doc.tocPages

\* C28: in the FIXED version a page break, automatic or forced, is never
\* made on a page on which nothing of the body or of the table of contents
\* has been drawn, and no page of the finished document that a page break
\* has made or left is empty of such content.
NoEmptyPage ==
    version = "fixed" =>
        /\ \A p \in 1..(PageCount - 1) : HasContent(p)
        /\ pc = "closed" /\ PageCount > 1 => HasContent(PageCount)

\* C29: when the FIXED version has closed a document with includeFooter and
\* includePageNumbers, 'Page n' is written exactly once on each page: the
\* footer of the page and the closing pass do not both write it.
PageNumberWrittenOnce ==
    (version = "fixed" /\ pc = "closed" /\ opts.includeFooter /\ opts.includePageNumbers)
        => \A p \in 1..PageCount : Len(doc.pages[p].pageTexts) = 1

---------------------------------------------------------------------------
(* The kinds of response.                                                   *)

\* the response of request r is a PDF stream: the PDF headers are set and the
\* document is piped to it
IsPdf(r) == Req(r).res.pdfHeaders /\ Req(r).res.piped

\* the response of request r carries a JSON error
IsJsonError(r) == Req(r).res.error /\ Req(r).res.json # NoMessage

\* C30: in the second version of the handler every request gets exactly one
\* kind of response: a 400 JSON error, sent before any call of the content
\* source and any render, a 500 JSON error, or a PDF stream; a response that
\* has the PDF headers set and the document piped to it never also gets a
\* JSON error.
OneKindOfResponse ==
    server.handler = "second" =>
        \A r \in Requests :
            /\ ~(IsPdf(r) /\ IsJsonError(r))
            /\ Req(r).res.status = 400 =>
                  /\ IsJsonError(r)
                  /\ ~Req(r).geminiCalled
                  /\ ~Req(r).doc.open
            /\ Req(r).res.status = 500 => IsJsonError(r)
            /\ Req(r).res.status = 200 => IsPdf(r)
            /\ Req(r).pc = "done" => Req(r).res.status \in {200, 400, 500}

=============================================================================
